---- MODULE Spec2Model ----
(***************************************************************************)
(* script/generate_symbol_table.py: fetch an exchange's instrument         *)
(* catalogue over HTTP, parse it into normalized records, write a CSV.     *)
(*                                                                         *)
(* A Python dict is a record over the keys the program reads; a key the    *)
(* dict does not hold has the value NoKey (what dict.get(key) sees as      *)
(* "use the default").                                                     *)
(***************************************************************************)
EXTENDS Integers, Sequences, FiniteSets, TLC

VARIABLES
    entry,          \* which callable the run starts in: main() or get_fetcher()
    market,         \* the market name given to the run
    pc,             \* position of the run
    fetcher,        \* class of the fetcher get_fetcher returned
    catIdx,         \* BybitFetcher.get_exchange_info: index of `category` in categories
    cursor,         \* BybitFetcher.get_exchange_info: cursor
    all_symbols,    \* BybitFetcher.get_exchange_info: all_symbols
    exchange_info,  \* main: the instrument list of exchange_info
    symbols,        \* main: symbols
    file,           \* the file at args.dst
    exc,            \* the exception that ended the run ("none" when none)
    excArgs,        \* what the message of that exception names
    stderr,         \* what main printed on sys.stderr
    exitStatus,     \* process exit status (-1 while running)
    server,         \* upstream: per category, the pages it has served, in order
    requests,       \* log of the GET requests issued, with what each came to
    fileBefore,     \* the file at args.dst when the run started
    written,        \* the arguments of the last write_csv call that succeeded
    calls           \* number of parse_symbols calls made (SpecCalls)

vars == <<entry, market, pc, fetcher, catIdx, cursor, all_symbols, exchange_info,
          symbols, file, exc, excArgs, stderr, exitStatus, server, requests,
          fileBefore, written, calls>>

----------------------------------------------------------------------------
(* Bounds of the model *)

\* pages the upstream serves for one category
MaxPages == 3
\* instruments the upstream holds, over all categories and pages
MaxInstr == 2
\* instruments in a payload handed to parse_symbols directly
MaxPayload == 2
\* parse/write calls in a row
MaxCalls == 2

----------------------------------------------------------------------------
(* Python values *)

NoKey == "<absent>"

\* dict.get(key, default)
Get(v, default) == IF v = NoKey THEN default ELSE v

\* truth value of an optional string: None and '' are false
Truthy(v) == v # NoKey /\ v # ""

Range(s) == {s[i] : i \in 1..Len(s)}

SeqsUpTo(S, n) == UNION {[1..k -> S] : k \in 0..n}

RECURSIVE Flatten(_)
Flatten(ss) == IF ss = <<>> THEN <<>> ELSE Head(ss) \o Flatten(Tail(ss))

----------------------------------------------------------------------------
(* parse_symbols *)

\* result of a call: the value returned, or the exception raised
Returned(v) == [raised |-> "none", value |-> v]
Raised(e) == [raised |-> e, value |-> <<>>]

BinanceActive(symbol_info) == symbol_info.status = "TRADING"

\* price_filter = None, qty_filter = None (lines 52-53)
None == [filterType |-> NoKey, tickSize |-> NoKey, stepSize |-> NoKey]

\* the filter scan, lines 55-59: the last filter of the type, None when none
RECURSIVE FindFilter(_, _, _)
FindFilter(filters, type, found) ==
    IF filters = <<>> THEN found
    ELSE FindFilter(Tail(filters), type,
                    IF Head(filters).filterType = type THEN Head(filters) ELSE found)

BinanceFiltersKeyError(symbol_info) ==
    \E i \in 1..Len(symbol_info.filters) : symbol_info.filters[i].filterType = NoKey

BinanceEmits(price_filter, qty_filter) == price_filter # None /\ qty_filter # None

BinanceRecord(symbol_info, instrument, price_filter, qty_filter) ==
    [symbol |-> symbol_info.symbol,
     base |-> symbol_info.baseAsset,
     quote |-> symbol_info.quoteAsset,
     instrument |-> instrument,
     priceTick |-> Get(price_filter.tickSize, ""),
     szTick |-> Get(qty_filter.stepSize, "")]

RECURSIVE BinanceParseLoop(_, _, _)
BinanceParseLoop(list, instrument, acc) ==
    IF list = <<>> THEN Returned(acc)
    ELSE LET symbol_info == Head(list) IN
         IF ~BinanceActive(symbol_info)
         THEN BinanceParseLoop(Tail(list), instrument, acc)
         ELSE IF BinanceFiltersKeyError(symbol_info) THEN Raised("KeyError")
         ELSE LET price_filter == FindFilter(symbol_info.filters, "PRICE_FILTER", None)
                  qty_filter == FindFilter(symbol_info.filters, "LOT_SIZE", None)
              IN IF ~BinanceEmits(price_filter, qty_filter)
                 THEN BinanceParseLoop(Tail(list), instrument, acc)
                 ELSE IF NoKey \in {symbol_info.symbol, symbol_info.baseAsset,
                                    symbol_info.quoteAsset}
                 THEN Raised("KeyError")
                 ELSE BinanceParseLoop(Tail(list), instrument,
                          Append(acc, BinanceRecord(symbol_info, instrument,
                                                    price_filter, qty_filter)))

BinanceSpotParse(list) == BinanceParseLoop(list, "spot", <<>>)

BinancePerpParse(list) == BinanceParseLoop(list, "perp", <<>>)

\* a slip: the status is compared without regard to case
BybitActiveAnyCase(symbol_info) == symbol_info.status \in {"Trading", "TRADING"}

BybitActive(symbol_info) == symbol_info.status = "Trading"

BybitInstrument(category) ==
    CASE category = "spot" -> "spot"
      [] category = "linear" -> "perp"
      [] category = "inverse" -> "inverse"
      [] OTHER -> category

\* a slip: only linear instruments take qtyStep
BybitSzTickLinearOnly(category, lot_size_filter) ==
    IF category = "linear"
    THEN Get(lot_size_filter.qtyStep, "")
    ELSE Get(lot_size_filter.basePrecision, "")

BybitSzTick(category, lot_size_filter) ==
    IF category = "linear" \/ category = "inverse"
    THEN Get(lot_size_filter.qtyStep, "")
    ELSE Get(lot_size_filter.basePrecision, "")

BybitRecord(symbol_info) ==
    LET category == Get(symbol_info.category, "spot") IN
    [symbol |-> symbol_info.symbol,
     base |-> symbol_info.baseCoin,
     quote |-> symbol_info.quoteCoin,
     instrument |-> BybitInstrument(category),
     priceTick |-> Get(symbol_info.priceFilter.tickSize, ""),
     szTick |-> BybitSzTick(category, symbol_info.lotSizeFilter)]

RECURSIVE BybitParseLoop(_, _)
BybitParseLoop(list, acc) ==
    IF list = <<>> THEN Returned(acc)
    ELSE LET symbol_info == Head(list) IN
         IF ~BybitActive(symbol_info) THEN BybitParseLoop(Tail(list), acc)
         ELSE IF NoKey \in {symbol_info.symbol, symbol_info.baseCoin, symbol_info.quoteCoin}
         THEN Raised("KeyError")
         ELSE BybitParseLoop(Tail(list), Append(acc, BybitRecord(symbol_info)))

BybitParse(list) == BybitParseLoop(list, <<>>)

parse_symbols(cls, list) ==
    CASE cls = "BinanceSpotFetcher" -> BinanceSpotParse(list)
      [] cls = "BinancePerpFetcher" -> BinancePerpParse(list)
      [] cls = "BybitFetcher" -> BybitParse(list)

----------------------------------------------------------------------------
(* BybitFetcher.get_exchange_info *)

categories == <<"spot", "linear", "inverse">>

\* a slip: a symbol that already names a category keeps it (dict.setdefault)
TagPageKeepingUpstream(page_symbols, category) ==
    [i \in 1..Len(page_symbols) |->
        [page_symbols[i] EXCEPT !.category = Get(page_symbols[i].category, category)]]

\* lines 151-152: every symbol of the page gets the requested category
TagPage(page_symbols, category) ==
    [i \in 1..Len(page_symbols) |-> [page_symbols[i] EXCEPT !.category = category]]

\* a slip: the page goes in front of the accumulator
ExtendInFront(acc, page_symbols) == page_symbols \o acc

\* line 153
Extend(acc, page_symbols) == acc \o page_symbols

\* a slip: an empty page that still names a next cursor does not end the loop
StopPagingOnCursorOnly(next_cursor, page_symbols) == ~Truthy(next_cursor)

\* line 159: the break of the while loop
StopPaging(next_cursor, page_symbols) == ~Truthy(next_cursor) \/ page_symbols = <<>>

\* what a GET may come to: a 2xx response, a non-2xx response, no response
HttpOutcomes == {"200", "500", "timeout"}

\* requests.get raises when the transport fails (lines 40, 83, 145)
GetRaises(outcome) == IF outcome = "timeout" THEN "RequestException" ELSE "none"

\* a slip: the status of the response is never looked at
RaiseForStatusSkipped(outcome) == "none"

\* response.raise_for_status() (lines 41, 84, 146)
RaiseForStatus(outcome) == IF outcome = "200" THEN "none" ELSE "RequestException"

\* the exception the GET and raise_for_status end in, "none" when neither raises
HttpError(outcome) ==
    IF GetRaises(outcome) # "none" THEN GetRaises(outcome) ELSE RaiseForStatus(outcome)

\* the JSON body of a non-2xx response: no 'result', no 'symbols'
ErrorBody == [list |-> <<>>, nextPageCursor |-> NoKey]

\* lines 138-143: the cursor parameter of the request, NoKey when params has none
CursorParam(c) == IF Truthy(c) THEN c ELSE NoKey

----------------------------------------------------------------------------
(* get_fetcher, write_csv, main *)

fetchers == [binance |-> "BinanceSpotFetcher",
             binanceperp |-> "BinancePerpFetcher",
             bybit |-> "BybitFetcher"]

\* line 220
Supported(m) == m \in DOMAIN fetchers

\* lines 255-259: the choices of the positional argument
choices == {"binance", "binanceperp", "bybit"}

fieldnames == <<"symbol", "base", "quote", "instrument", "priceTick", "szTick">>

\* csv.DictWriter.writerow: the cells of a record in fieldnames order
RowOf(rec) == <<rec.symbol, rec.base, rec.quote, rec.instrument, rec.priceTick, rec.szTick>>

NoFile == [exists |-> FALSE, rows |-> <<>>]

\* a slip: the file is opened in append mode
CsvFileAppended(old, recs) ==
    [exists |-> TRUE,
     rows |-> old.rows \o <<fieldnames>> \o [i \in 1..Len(recs) |-> RowOf(recs[i])]]

\* lines 235-238: open(output_path, 'w') truncates `old`, then header and rows
CsvFile(old, recs) == [exists |-> TRUE,
                  rows |-> <<fieldnames>> \o [i \in 1..Len(recs) |-> RowOf(recs[i])]]

\* lines 288-293: the except clauses of main
IsRequestException(e) == e = "RequestException"

\* a slip: one except clause for everything
StderrOfGeneric(e) == "Error"

StderrOf(e) == IF IsRequestException(e) THEN "Error fetching data" ELSE "Error"

ExitStatusOf(e) == IF IsRequestException(e) THEN 1 ELSE 1

----------------------------------------------------------------------------
(* The upstream exchanges and the inputs of a run *)

BybitSymbol(sym, base, status, cat, tick, qty, prec) ==
    [symbol |-> sym, baseCoin |-> base, quoteCoin |-> "USDT", status |-> status,
     category |-> cat,
     priceFilter |-> [tickSize |-> tick],
     lotSizeFilter |-> [qtyStep |-> qty, basePrecision |-> prec]]

\* instruments the Bybit upstream may list
BybitCatalogue ==
    {BybitSymbol("BTCUSDT", "BTC", "Trading", NoKey, "0.01", "0.001", "0.0001"),
     BybitSymbol("ETHUSDT", "ETH", "Closed", "linear", "0.05", "0.01", "0.002"),
     BybitSymbol("XRPUSDT", "XRP", "Trading", "option", "0.1", NoKey, "0.5")}

Filter(type, tick, step) == [filterType |-> type, tickSize |-> tick, stepSize |-> step]

BinanceSymbol(sym, base, status, filters) ==
    [symbol |-> sym, baseAsset |-> base, quoteAsset |-> "USDT", status |-> status,
     filters |-> filters]

\* instruments a Binance upstream may list
BinanceCatalogue ==
    {BinanceSymbol("BTCUSDT", "BTC", "TRADING",
                   <<Filter("PRICE_FILTER", "0.01", NoKey),
                     Filter("LOT_SIZE", NoKey, "0.00001")>>),
     BinanceSymbol("ETHUSDT", "ETH", "BREAK",
                   <<Filter("PRICE_FILTER", "0.05", NoKey),
                     Filter("LOT_SIZE", NoKey, "0.001")>>),
     BinanceSymbol("XRPUSDT", "XRP", "TRADING",
                   <<Filter("LOT_SIZE", NoKey, "0.1"),
                     Filter("MIN_NOTIONAL", NoKey, NoKey)>>),
     BinanceSymbol("SOLUSDT", "SOL", "TRADING",
                   <<Filter(NoKey, "0.2", NoKey)>>)}

\* the token the upstream hands out with the j-th page of a category
CursorAfter(j) == IF j = 1 THEN "c1" ELSE IF j = 2 THEN "c2" ELSE "c3"

\* values of nextPageCursor in the j-th page of a category
Cursors(j) == {NoKey, "", CursorAfter(j)}

\* market names a run may be given
Markets == {"binance", "binanceperp", "bybit", "kraken"}

\* what may be at args.dst before the run
PriorFiles ==
    {NoFile,
     [exists |-> TRUE, rows |-> <<fieldnames, <<"OLD", "O", "LD", "spot", "1", "1">>,
                                  <<"OLDER", "OL", "DER", "perp", "2", "2">>>>]}

NoArgs == [market |-> NoKey, supported |-> {}]

\* a slip: the message names the market alone
UnsupportedMarketBare(m) == [market |-> m, supported |-> {}]

\* line 221: the message of the ValueError
UnsupportedMarket(m) == [market |-> m, supported |-> DOMAIN fetchers]

\* argparse's "invalid choice" message
InvalidChoice(m) == [market |-> m, supported |-> choices]

NoWrite == [made |-> FALSE, payload |-> <<>>, symbols |-> <<>>]

NoServer == [c \in Range(categories) |-> <<>>]

\* instruments the upstream has served so far
Served == Len(Flatten([i \in 1..Len(categories) |->
              Flatten([j \in 1..Len(server[categories[i]]) |->
                          server[categories[i]][j].list])]))

Init ==
    /\ entry \in {"main", "get_fetcher"}
    /\ market \in Markets
    /\ pc = "start"
    /\ fetcher = NoKey
    /\ catIdx = 0
    /\ cursor = NoKey
    /\ all_symbols = <<>>
    /\ exchange_info = <<>>
    /\ symbols = <<>>
    /\ file \in PriorFiles
    /\ exc = "none"
    /\ excArgs = NoArgs
    /\ stderr = ""
    /\ exitStatus = -1
    /\ server = NoServer
    /\ requests = <<>>
    /\ fileBefore = file
    /\ written = NoWrite
    /\ calls = 0

\* the except clauses of main, then sys.exit
Fail(e) ==
    /\ exc' = e
    /\ excArgs' = IF e = "ValueError" THEN UnsupportedMarket(market) ELSE NoArgs
    /\ stderr' = StderrOf(e)
    /\ exitStatus' = ExitStatusOf(e)
    /\ pc' = "exit"

\* lines 244-271: argparse rejects a market that is not among the choices
ParseArgs ==
    /\ pc = "start" /\ entry = "main"
    /\ IF market \in choices
       THEN /\ pc' = "get_fetcher"
            /\ UNCHANGED <<exc, excArgs, stderr, exitStatus>>
       ELSE /\ pc' = "exit"
            /\ exc' = "SystemExit"
            /\ excArgs' = InvalidChoice(market)
            /\ stderr' = "usage"
            /\ exitStatus' = 2
    /\ UNCHANGED <<entry, market, fetcher, catIdx, cursor, all_symbols, exchange_info,
                   symbols, file, server, requests, fileBefore, written, calls>>

\* get_fetcher called from main (line 275)
GetFetcher ==
    /\ pc = "get_fetcher"
    /\ IF Supported(market)
       THEN /\ fetcher' = fetchers[market]
            /\ pc' = "fetch"
            /\ UNCHANGED <<exc, excArgs, stderr, exitStatus>>
       ELSE /\ Fail("ValueError")
            /\ UNCHANGED fetcher
    /\ UNCHANGED <<entry, market, catIdx, cursor, all_symbols, exchange_info,
                   symbols, file, server, requests, fileBefore, written, calls>>

\* get_fetcher called on its own
CallGetFetcher ==
    /\ pc = "start" /\ entry = "get_fetcher"
    /\ IF Supported(market)
       THEN /\ fetcher' = fetchers[market]
            /\ pc' = "returned"
            /\ UNCHANGED <<exc, excArgs>>
       ELSE /\ exc' = "ValueError"
            /\ excArgs' = UnsupportedMarket(market)
            /\ pc' = "raised"
            /\ UNCHANGED fetcher
    /\ UNCHANGED <<entry, market, catIdx, cursor, all_symbols, exchange_info, symbols,
                   file, stderr, exitStatus, server, requests, fileBefore, written, calls>>

\* BinanceSpotFetcher / BinancePerpFetcher .get_exchange_info: one GET
BinanceFetch ==
    /\ pc = "fetch"
    /\ fetcher \in {"BinanceSpotFetcher", "BinancePerpFetcher"}
    /\ \E outcome \in HttpOutcomes :
          /\ requests' = Append(requests, [category |-> "exchangeInfo", cursor |-> NoKey,
                                           outcome |-> outcome])
          /\ IF HttpError(outcome) # "none"
             THEN /\ Fail(HttpError(outcome))
                  /\ UNCHANGED exchange_info
             ELSE /\ \E list \in IF outcome = "200"
                                 THEN SeqsUpTo(BinanceCatalogue, MaxInstr)
                                 ELSE {ErrorBody.list} :
                        exchange_info' = list
                  /\ pc' = "parse"
                  /\ UNCHANGED <<exc, excArgs, stderr, exitStatus>>
    /\ UNCHANGED <<entry, market, fetcher, catIdx, cursor, all_symbols, symbols, file,
                   server, fileBefore, written, calls>>

\* BybitFetcher.get_exchange_info, lines 125-134: up to the first request
BybitStart ==
    /\ pc = "fetch"
    /\ fetcher = "BybitFetcher"
    /\ all_symbols' = <<>>
    /\ catIdx' = 1
    /\ cursor' = NoKey
    /\ pc' = "page"
    /\ UNCHANGED <<entry, market, fetcher, exchange_info, symbols, file, exc, excArgs,
                   stderr, exitStatus, server, requests, fileBefore, written, calls>>

\* the upstream's answer to the next request for `category`: any page of
\* instruments it still holds; the MaxPages-th page is the last of its listing
ServerPages(category) ==
    {[list |-> l, nextPageCursor |-> n] :
        l \in SeqsUpTo(BybitCatalogue, MaxInstr - Served),
        n \in IF Len(server[category]) + 1 >= MaxPages
              THEN {NoKey, ""}
              ELSE Cursors(Len(server[category]) + 1)}

\* one iteration of the while loop, lines 136-163, and what follows its break
BybitPage ==
    /\ pc = "page"
    /\ LET category == categories[catIdx] IN
       /\ Len(server[category]) < MaxPages
       /\ \E outcome \in HttpOutcomes :
          /\ requests' = Append(requests, [category |-> category,
                                           cursor |-> CursorParam(cursor),
                                           outcome |-> outcome])
          /\ IF HttpError(outcome) # "none"
             THEN /\ Fail(HttpError(outcome))
                  /\ UNCHANGED <<catIdx, cursor, all_symbols, exchange_info, server>>
             ELSE \E data \in IF outcome = "200" THEN ServerPages(category)
                                                 ELSE {ErrorBody} :
                  LET page_symbols == TagPage(data.list, category)
                      next_cursor == data.nextPageCursor
                      extended == Extend(all_symbols, page_symbols)
                  IN /\ server' = IF outcome = "200"
                                  THEN [server EXCEPT ![category] = Append(@, data)]
                                  ELSE server
                     /\ all_symbols' = extended
                     /\ UNCHANGED <<exc, excArgs, stderr, exitStatus>>
                     /\ IF ~StopPaging(next_cursor, page_symbols)
                        THEN /\ cursor' = next_cursor
                             /\ UNCHANGED <<catIdx, exchange_info, pc>>
                        ELSE IF catIdx < Len(categories)
                        THEN /\ catIdx' = catIdx + 1
                             /\ cursor' = NoKey
                             /\ UNCHANGED <<exchange_info, pc>>
                        ELSE /\ exchange_info' = extended
                             /\ pc' = "parse"
                             /\ UNCHANGED <<catIdx, cursor>>
    /\ UNCHANGED <<entry, market, fetcher, symbols, file, fileBefore, written, calls>>

\* main, line 281
Parse ==
    /\ pc = "parse"
    /\ LET r == parse_symbols(fetcher, exchange_info) IN
       IF r.raised = "none"
       THEN /\ symbols' = r.value
            /\ pc' = "write"
            /\ UNCHANGED <<exc, excArgs, stderr, exitStatus>>
       ELSE /\ Fail(r.raised)
            /\ UNCHANGED symbols
    /\ UNCHANGED <<entry, market, fetcher, catIdx, cursor, all_symbols, exchange_info,
                   file, server, requests, fileBefore, written, calls>>

\* main, line 286: write_csv, which the file system may refuse (makedirs, open)
WriteCsv ==
    /\ pc = "write"
    /\ \E fsOk \in BOOLEAN :
          IF fsOk
          THEN /\ file' = CsvFile(file, symbols)
               /\ written' = [made |-> TRUE, payload |-> exchange_info, symbols |-> symbols]
               /\ pc' = "exit"
               /\ exitStatus' = 0
               /\ UNCHANGED <<exc, excArgs, stderr>>
          ELSE /\ Fail("OSError")
               /\ UNCHANGED <<file, written>>
    /\ UNCHANGED <<entry, market, fetcher, catIdx, cursor, all_symbols, exchange_info,
                   symbols, server, requests, fileBefore, calls>>

Next ==
    \/ ParseArgs
    \/ GetFetcher
    \/ CallGetFetcher
    \/ BinanceFetch
    \/ BybitStart
    \/ BybitPage
    \/ Parse
    \/ WriteCsv

Spec == Init /\ [][Next]_vars

----------------------------------------------------------------------------
(* parse_symbols on its own: every combination of the fields it reads *)

BybitPayloadSymbols ==
    {BybitSymbol("BTCUSDT", "BTC", status, cat, t[1], t[2], t[3]) :
        status \in {"Trading", "TRADING", "Closed", NoKey},
        cat \in {"spot", "linear", "inverse", "option", NoKey},
        t \in {<<"0.01", "0.001", "0.0001">>, <<NoKey, "0.001", "0.0001">>,
               <<"0.01", NoKey, "0.0001">>, <<"0.01", "0.001", NoKey>>}}
    \cup {BybitSymbol("ETHUSDT", NoKey, "Trading", "spot", "0.01", "0.001", "0.0001")}

BinancePayloadFilters ==
    {<<>>,
     <<Filter("PRICE_FILTER", "0.01", NoKey), Filter("LOT_SIZE", NoKey, "0.00001")>>,
     <<Filter("LOT_SIZE", NoKey, "0.00001"), Filter("PRICE_FILTER", "0.01", NoKey)>>,
     <<Filter("PRICE_FILTER", "0.01", NoKey), Filter("MIN_NOTIONAL", NoKey, NoKey)>>,
     <<Filter("LOT_SIZE", NoKey, "0.00001")>>,
     <<Filter("PRICE_FILTER", NoKey, NoKey), Filter("LOT_SIZE", NoKey, "0.00001")>>,
     <<Filter("PRICE_FILTER", "0.01", NoKey), Filter("LOT_SIZE", NoKey, NoKey)>>,
     <<Filter("PRICE_FILTER", "0.01", NoKey), Filter("PRICE_FILTER", "0.02", NoKey),
       Filter("LOT_SIZE", NoKey, "0.00001")>>,
     <<Filter(NoKey, "0.01", NoKey), Filter("LOT_SIZE", NoKey, "0.00001")>>}

BinancePayloadSymbols ==
    {BinanceSymbol("BTCUSDT", "BTC", status, filters) :
        status \in {"TRADING", "Trading", "BREAK", NoKey},
        filters \in BinancePayloadFilters}
    \cup {BinanceSymbol("ETHUSDT", NoKey, "TRADING",
                        <<Filter("PRICE_FILTER", "0.01", NoKey),
                          Filter("LOT_SIZE", NoKey, "0.00001")>>)}

Classes == {fetchers[m] : m \in DOMAIN fetchers}

PayloadSymbols(cls) ==
    IF cls = "BybitFetcher" THEN BybitPayloadSymbols ELSE BinancePayloadSymbols

InitParse ==
    /\ entry = "parse_symbols"
    /\ market = NoKey
    /\ pc = "input"
    /\ fetcher \in Classes
    /\ exchange_info \in SeqsUpTo(PayloadSymbols(fetcher), MaxPayload)
    /\ catIdx = 0
    /\ cursor = NoKey
    /\ all_symbols = <<>>
    /\ symbols = <<>>
    /\ file = NoFile
    /\ exc = "none"
    /\ excArgs = NoArgs
    /\ stderr = ""
    /\ exitStatus = -1
    /\ server = NoServer
    /\ requests = <<>>
    /\ fileBefore = NoFile
    /\ written = NoWrite
    /\ calls = 0

\* fetcher.parse_symbols(exchange_info)
ParsePayload ==
    /\ pc = "input"
    /\ LET r == parse_symbols(fetcher, exchange_info) IN
       /\ symbols' = r.value
       /\ exc' = r.raised
    /\ pc' = "parsed"
    /\ UNCHANGED <<entry, market, fetcher, catIdx, cursor, all_symbols, exchange_info,
                   file, excArgs, stderr, exitStatus, server, requests, fileBefore,
                   written, calls>>

NextParse == ParsePayload

SpecParse == InitParse /\ [][NextParse]_vars

----------------------------------------------------------------------------
(* parse_symbols then write_csv to one path, call after call *)

Catalogue(cls) == IF cls = "BybitFetcher" THEN BybitCatalogue ELSE BinanceCatalogue

InitCalls ==
    /\ entry = "write_csv"
    /\ market = NoKey
    /\ pc = "idle"
    /\ fetcher = NoKey
    /\ exchange_info = <<>>
    /\ catIdx = 0
    /\ cursor = NoKey
    /\ all_symbols = <<>>
    /\ symbols = <<>>
    /\ file = NoFile
    /\ exc = "none"
    /\ excArgs = NoArgs
    /\ stderr = ""
    /\ exitStatus = -1
    /\ server = NoServer
    /\ requests = <<>>
    /\ fileBefore = NoFile
    /\ written = NoWrite
    /\ calls = 0

\* symbols = fetcher.parse_symbols(exchange_info), for some fetcher and payload
CallParse ==
    /\ pc = "idle"
    /\ calls < MaxCalls
    /\ calls' = calls + 1
    /\ \E cls \in Classes : \E list \in SeqsUpTo(Catalogue(cls), MaxPayload) :
          LET r == parse_symbols(cls, list) IN
          /\ exc' = r.raised
          /\ IF r.raised = "none"
             THEN /\ fetcher' = cls
                  /\ exchange_info' = list
                  /\ symbols' = r.value
                  /\ pc' = "ready"
             ELSE UNCHANGED <<fetcher, exchange_info, symbols, pc>>
    /\ UNCHANGED <<entry, market, catIdx, cursor, all_symbols, file, excArgs, stderr,
                   exitStatus, server, requests, fileBefore, written>>

\* write_csv(symbols, dst); the caller then drops the payload and the records
CallWriteCsv ==
    /\ pc = "ready"
    /\ pc' = "idle"
    /\ fileBefore' = file
    /\ fetcher' = NoKey
    /\ exchange_info' = <<>>
    /\ symbols' = <<>>
    /\ \E fsOk \in BOOLEAN :
          IF fsOk
          THEN /\ file' = CsvFile(file, symbols)
               /\ written' = [made |-> TRUE, payload |-> exchange_info, symbols |-> symbols]
               /\ UNCHANGED exc
          ELSE /\ exc' = "OSError"
               /\ UNCHANGED <<file, written>>
    /\ UNCHANGED <<entry, market, catIdx, cursor, all_symbols, excArgs, stderr,
                   exitStatus, server, requests, calls>>

NextCalls == CallParse \/ CallWriteCsv

SpecCalls == InitCalls /\ [][NextCalls]_vars

----------------------------------------------------------------------------
(* Properties of the paginated fetch *)

Ended == pc \in {"exit", "returned", "raised"}

\* get_exchange_info of the Bybit fetcher has returned
BybitFetched ==
    /\ fetcher = "BybitFetcher"
    /\ pc \in {"parse", "write", "exit"}
    /\ exc # "RequestException"

NoNextCursor(page) == page.nextPageCursor \in {NoKey, ""}

\* a scripted sequence of pages: the last page has no next cursor, every
\* earlier page has instruments and a next cursor
WellFormedScript(pages) ==
    /\ Len(pages) >= 1
    /\ NoNextCursor(pages[Len(pages)])
    /\ \A j \in 1..(Len(pages) - 1) : pages[j].list # <<>> /\ ~NoNextCursor(pages[j])

\* the instruments of every page served, in category order and page order,
\* each carrying the category it was requested under
PagesInOrder ==
    Flatten([i \in 1..Len(categories) |->
        Flatten([j \in 1..Len(server[categories[i]]) |->
            [k \in 1..Len(server[categories[i]][j].list) |->
                [server[categories[i]][j].list[k] EXCEPT !.category = categories[i]]]])])

RequestsFor(c) == SelectSeq(requests, LAMBDA r : r.category = c)

\* C1: when every category's pages form a well-formed script, the fetch issues
\* exactly one request per page and returns the instruments of all pages in
\* category order and page order; and it stops: while it is paging, the page
\* it got last named a next cursor, so it never asks for a page after the
\* last one and never waits for a page the upstream does not have.
C1_PaginationConcatenates ==
    /\ (BybitFetched /\ \A c \in Range(categories) : WellFormedScript(server[c]))
          => /\ exchange_info = PagesInOrder
             /\ \A c \in Range(categories) : Len(RequestsFor(c)) = Len(server[c])
             /\ Len(requests) = Len(Flatten([i \in 1..Len(categories) |->
                                                server[categories[i]]]))
    /\ (pc = "page" /\ server[categories[catIdx]] # <<>>)
          => ~NoNextCursor(server[categories[catIdx]][Len(server[categories[catIdx]])])
    /\ pc = "page" => Len(server[categories[catIdx]]) < MaxPages

C1_Witness ==
    /\ BybitFetched
    /\ \A c \in Range(categories) : WellFormedScript(server[c])
    /\ \E c \in Range(categories) : Len(server[c]) >= 2
    /\ Len(exchange_info) >= 2
    /\ server["inverse"][1].list # <<>>

\* the response to the k-th request of the log
PageNo(k) == Cardinality({j \in 1..k : requests[j].category = requests[k].category})

ResponseTo(k) == server[requests[k].category][PageNo(k)]

Continues(page) == Truthy(page.nextPageCursor) /\ page.list # <<>>

NextCategory(c) == IF c = "spot" THEN "linear" ELSE "inverse"

\* C2: the first request is for spot without a cursor; after a response with a
\* next cursor and instruments the next request is for the same category with
\* that cursor; after any other response no request follows for that category
\* and the next one is the first, cursorless, request of the next category;
\* the accumulator holds the instruments of every page received so far.
C2_PaginationStepRule ==
    (fetcher = "BybitFetcher") =>
       /\ \A k \in 1..Len(requests) :
             /\ k = 1 => requests[k].category = "spot" /\ requests[k].cursor = NoKey
             /\ k < Len(requests) =>
                   /\ requests[k].outcome = "200"
                   /\ LET response == ResponseTo(k) IN
                      IF Continues(response)
                      THEN /\ requests[k + 1].category = requests[k].category
                           /\ requests[k + 1].cursor = response.nextPageCursor
                      ELSE /\ requests[k].category # "inverse"
                           /\ requests[k + 1].category = NextCategory(requests[k].category)
                           /\ requests[k + 1].cursor = NoKey
       /\ all_symbols = PagesInOrder
       /\ (requests # <<>> /\ requests[Len(requests)].outcome = "200")
             => LET last == ResponseTo(Len(requests))
                    c == requests[Len(requests)].category
                IN IF Continues(last)
                   THEN pc = "page" /\ categories[catIdx] = c
                        /\ cursor = last.nextPageCursor
                   ELSE IF c = "inverse"
                   THEN pc # "page"
                   ELSE pc = "page" /\ categories[catIdx] = NextCategory(c)
                        /\ cursor = NoKey

C2_Witness ==
    /\ fetcher = "BybitFetcher"
    /\ Len(requests) >= 3
    /\ server["spot"][1].list = <<>> /\ server["spot"][1].nextPageCursor = "c1"
    /\ requests[2].category = "linear" /\ requests[2].cursor = NoKey
    /\ Continues(server["linear"][1]) /\ server["linear"][1].nextPageCursor = "c1"
    /\ requests[3].category = "linear" /\ requests[3].cursor = "c1"

----------------------------------------------------------------------------
(* Properties of main *)

\* get_fetcher, get_exchange_info (every page of every category for bybit)
\* and parse_symbols have all completed without error
FetchParseDone ==
    /\ Supported(market) /\ fetcher = fetchers[market]
    /\ requests # <<>>
    /\ \A k \in 1..Len(requests) : requests[k].outcome = "200"
    /\ fetcher = "BybitFetcher" =>
          /\ \A c \in Range(categories) :
                server[c] # <<>> /\ ~Continues(server[c][Len(server[c])])
          /\ exchange_info = PagesInOrder
    /\ LET r == parse_symbols(fetcher, exchange_info) IN
       r.raised = "none" /\ symbols = r.value

\* C3: write_csv is called, and the destination changes, only after resolve,
\* fetch and parse have completed without error; when one of them fails the
\* destination is what it was before the run and the exit status is 1.
C3_NoPartialResults ==
    (entry = "main") =>
       /\ (written.made \/ exc = "OSError" \/ file # fileBefore \/ pc = "write")
             => FetchParseDone
       /\ (pc = "exit" /\ exc \in {"ValueError", "RequestException", "KeyError"})
             => file = fileBefore /\ ~written.made /\ exitStatus = 1
       /\ pc # "exit" => file = fileBefore /\ ~written.made

C3_Witness ==
    /\ pc = "exit" /\ exc = "RequestException" /\ exitStatus = 1
    /\ fetcher = "BybitFetcher"
    /\ Len(requests) >= 2 /\ all_symbols # <<>>
    /\ fileBefore.exists /\ file = fileBefore

SupportedNames == {"binance", "binanceperp", "bybit"}

NetworkFailure == \E k \in 1..Len(requests) : requests[k].outcome # "200"

ActiveServed == SelectSeq(PagesInOrder, LAMBDA x : x.status = "Trading")

Taxonomy == [spot |-> "spot", linear |-> "perp", inverse |-> "inverse"]

\* C10: in the bybit pipeline the instrument of every record is spot, perp or
\* inverse, and is the one of the category the instrument was requested under,
\* whatever category the upstream instrument itself names.
C10_InstrumentFromRequestCategory ==
    (fetcher = "BybitFetcher" /\ pc \in {"write", "exit"} /\ exc \in {"none", "OSError"})
       => LET active == ActiveServed IN
          /\ Len(symbols) = Len(active)
          /\ \A k \in 1..Len(symbols) :
                /\ symbols[k].symbol = active[k].symbol
                /\ symbols[k].instrument = Taxonomy[active[k].category]
                /\ symbols[k].instrument \in {"spot", "perp", "inverse"}

C10_Witness ==
    /\ pc = "exit" /\ exitStatus = 0 /\ fetcher = "BybitFetcher"
    /\ \E k \in 1..Len(symbols) :
          /\ symbols[k].symbol = "XRPUSDT" /\ symbols[k].instrument = "inverse"
    /\ \E c \in Range(categories) : \E j \in 1..Len(server[c]) :
          \E i \in 1..Len(server[c][j].list) : server[c][j].list[i].category = "option"

----------------------------------------------------------------------------
(* Properties of parse_symbols and write_csv *)

Parsed == pc = "parsed" /\ exc = "none"

\* the active-trading marker of a fetcher
Marker(cls) == IF cls = "BybitFetcher" THEN "Trading" ELSE "TRADING"

ActiveInput == SelectSeq(exchange_info, LAMBDA x : x.status = Marker(fetcher))

\* C4 as stated: every record parse_symbols emits has a non-empty symbol, base
\* and quote and a non-empty priceTick and szTick.
C4_TicksResolved ==
    Parsed => \A k \in 1..Len(symbols) :
                 /\ symbols[k].symbol # "" /\ symbols[k].base # ""
                 /\ symbols[k].quote # ""
                 /\ symbols[k].priceTick # "" /\ symbols[k].szTick # ""

\* C5: every record comes from an instrument whose status is exactly the
\* fetcher's marker; an instrument with another status, or none, adds nothing.
C5_OnlyActiveEmitted ==
    Parsed =>
       /\ Len(symbols) <= Len(ActiveInput)
       /\ fetcher = "BybitFetcher" => Len(symbols) = Len(ActiveInput)
       /\ ActiveInput = <<>> => symbols = <<>>
       /\ \A i \in 1..Len(exchange_info) :
             exchange_info[i].status # Marker(fetcher) =>
                symbols = parse_symbols(fetcher,
                              SubSeq(exchange_info, 1, i - 1)
                                 \o SubSeq(exchange_info, i + 1, Len(exchange_info))).value

C5_Witness ==
    /\ Parsed /\ Len(exchange_info) = 2 /\ Len(symbols) = 1
    /\ exchange_info[1].status \in {"TRADING", "Trading"}
    /\ exchange_info[2].status \in {"TRADING", "Trading"}
    /\ exchange_info[1].status # exchange_info[2].status

\* C8: for the Bybit fetcher the k-th record is the k-th active instrument's;
\* its szTick is lotSizeFilter.qtyStep for linear and inverse and
\* lotSizeFilter.basePrecision for spot, and its priceTick is
\* priceFilter.tickSize (a field the instrument lacks reads as '').
C8_SizeTickByCategory ==
    (Parsed /\ fetcher = "BybitFetcher") =>
       /\ Len(symbols) = Len(ActiveInput)
       /\ \A k \in 1..Len(symbols) :
             LET x == ActiveInput[k] IN
             /\ x.category \in {"linear", "inverse"}
                   => symbols[k].szTick = Get(x.lotSizeFilter.qtyStep, "")
             /\ x.category = "spot"
                   => symbols[k].szTick = Get(x.lotSizeFilter.basePrecision, "")
             /\ symbols[k].priceTick = Get(x.priceFilter.tickSize, "")

C8_Witness ==
    /\ Parsed /\ fetcher = "BybitFetcher" /\ Len(symbols) = 2
    /\ exchange_info[1].category = "inverse" /\ symbols[1].szTick = "0.001"
    /\ exchange_info[2].category = "spot" /\ symbols[2].szTick = "0.0001"
    /\ symbols[1].priceTick = "0.01"

RECURSIVE IsSubsequence(_, _)
IsSubsequence(a, b) ==
    IF a = <<>> THEN TRUE
    ELSE IF b = <<>> THEN FALSE
    ELSE IF Head(a) = Head(b) THEN IsSubsequence(Tail(a), Tail(b))
    ELSE IsSubsequence(a, Tail(b))

\* C9: after any calls of write_csv to one path the file is the header row and
\* then one row per record of the last call that succeeded, in that call's
\* order, with nothing left of an earlier call; and those records name their
\* symbols in the order the payload listed them.
C9_FileIsLastCall ==
    /\ ~written.made => file = NoFile
    /\ written.made =>
          /\ file.exists
          /\ Len(file.rows) = 1 + Len(written.symbols)
          /\ file.rows[1] = <<"symbol", "base", "quote", "instrument", "priceTick", "szTick">>
          /\ \A i \in 1..Len(written.symbols) :
                LET rec == written.symbols[i] IN
                file.rows[i + 1] = <<rec.symbol, rec.base, rec.quote, rec.instrument,
                                     rec.priceTick, rec.szTick>>
          /\ IsSubsequence([i \in 1..Len(written.symbols) |-> written.symbols[i].symbol],
                           [i \in 1..Len(written.payload) |-> written.payload[i].symbol])

C9_Witness ==
    /\ calls >= 2 /\ pc = "idle" /\ written.made /\ exc = "none"
    /\ fileBefore.exists /\ Len(fileBefore.rows) = 3
    /\ fileBefore.rows[2][1] = "BTCUSDT"
    /\ Len(file.rows) = 3 /\ file.rows[2][1] = "XRPUSDT" /\ file.rows[3][1] = "BTCUSDT"

====
